---- MODULE Spec2Model ----
\* Verification model of the render-pipeline support code of github-stats-api:
\*   - the shared Remotion browser handle (getSharedRemotionBrowser /
\*     closeSharedRemotionBrowser),
\*   - the MP4 -> WebP transcode stage (convertVideoToWebP),
\*   - the retry/timeout combinator (withTimeout / withRetry) and the
\*     dependency checks built from it (config/startup),
\*   - the readiness route GET /ready (routes/health.ts).
\* Each component has its own specification (SpecBrowser, SpecTranscode,
\* SpecRetry, SpecReady, SpecStartup, SpecNames, SpecQueue, ...) over the
\* same variables; a component's next-state relation leaves the other
\* components' variables unchanged.
EXTENDS Integers, Sequences, FiniteSets, TLC

VARIABLES
    browserPromise,   \* module variable `browserPromise`: 0 = null, else a launch id
    launches,         \* one record per openBrowser() call: the promise it returned
    caller,           \* callers of getSharedRemotionBrowser, one record each
    closer,           \* callers of closeSharedRemotionBrowser, one record each
    fs,               \* the paths that exist in TEMP_DIR
    tc,               \* the convertVideoToWebP invocation: position and locals
    rt,               \* the withRetry invocation in progress: options and locals
    ops,              \* what the wrapped operation was asked to do: number of
                      \* invocations, number that did not succeed in time, last outcome
    sv,               \* the GET /ready handler or runStartupChecks in progress
    deps,             \* the state of the external dependencies
    names,            \* concurrent convertVideoToWebP invocations: the clock and
                      \* the temporary paths each running invocation built
    jobs,             \* the job records of the queue store, in submission order
    worker            \* the workers of the pool, one record each

bvars == <<browserPromise, launches, caller, closer>>
tvars == <<fs, tc>>
rvars == <<rt, ops>>
svars == <<sv, deps>>
nvars == <<names>>
qvars == <<jobs, worker>>

vars == <<browserPromise, launches, caller, closer, fs, tc, rt, ops, sv, deps,
          names, jobs, worker>>

\* ------------------------------------------------------------------ bounds
NCallers == 3       \* concurrent callers of getSharedRemotionBrowser
NClosers == 2       \* concurrent callers of closeSharedRemotionBrowser
MaxLaunches == 3    \* cap on the number of openBrowser() calls in one run

Callers == 1..NCallers
Closers == 1..NClosers

\* ------------------------------------------------- shared browser handle
\* `if (browserPromise) return browserPromise;` -- a promise object is truthy
\* whatever its state (pending, resolved or rejected); only null is falsy.
\* (Variant used to test the properties: only a promise that has already
\* resolved is reused, as if the Browser were cached instead of the promise.)
ReuseOnlyWhenReady(bp) == bp # 0 /\ launches[bp].st = "resolved"

HasSharedPromise(bp) == bp # 0

\* openBrowser('chrome', ...) returns a fresh pending promise.
OpenBrowser(ls) == Append(ls, [st |-> "pending", closes |-> 0])

\* getSharedRemotionBrowser(): synchronous, so the test and the assignment
\* happen in one step. The caller then awaits the promise it was handed.
\* `stale` records whether the promise handed out had already rejected
\* (history, for the properties).
getSharedRemotionBrowser(c) ==
    /\ caller[c].pc = "idle"
    /\ IF HasSharedPromise(browserPromise)
         THEN /\ caller' = [caller EXCEPT ![c] =
                     [pc |-> "waiting", p |-> browserPromise,
                      stale |-> launches[browserPromise].st = "rejected"]]
              /\ UNCHANGED <<browserPromise, launches>>
         ELSE /\ Len(launches) < MaxLaunches
              /\ launches' = OpenBrowser(launches)
              /\ browserPromise' = Len(launches) + 1
              /\ caller' = [caller EXCEPT ![c] =
                     [pc |-> "waiting", p |-> Len(launches) + 1,
                      stale |-> FALSE]]
    /\ UNCHANGED <<closer, tvars, rvars, svars, nvars, qvars>>

\* The engine launch settles: the promise resolves with a Browser ...
LaunchResolves(l) ==
    /\ l \in 1..Len(launches)
    /\ launches[l].st = "pending"
    /\ launches' = [launches EXCEPT ![l].st = "resolved"]
    /\ UNCHANGED <<browserPromise, caller, closer, tvars, rvars, svars, nvars, qvars>>

\* ... or rejects (Chromium failed to start).
LaunchRejects(l) ==
    /\ l \in 1..Len(launches)
    /\ launches[l].st = "pending"
    /\ launches' = [launches EXCEPT ![l].st = "rejected"]
    /\ UNCHANGED <<browserPromise, caller, closer, tvars, rvars, svars, nvars, qvars>>

\* The caller's `await` of the promise it holds completes with the promise's
\* outcome: the Browser of that launch ("got") or its rejection ("failed").
CallerObserves(c) ==
    /\ caller[c].pc = "waiting"
    /\ launches[caller[c].p].st # "pending"
    /\ caller' = [caller EXCEPT ![c].pc =
           IF launches[caller[c].p].st = "resolved" THEN "got" ELSE "failed"]
    /\ UNCHANGED <<browserPromise, launches, closer, tvars, rvars, svars, nvars, qvars>>

\* When a teardown is called (history, for the properties): "never" before
\* any launch, "again" after another teardown has completed with no launch
\* since, "live" otherwise.
CalledWhen(k) ==
    IF Len(launches) = 0 THEN "never"
    ELSE IF \E j \in Closers \ {k} :
                closer[j].pc \in {"done", "closeThrew"} /\ closer[j].p = Len(launches)
      THEN "again"
      ELSE "live"

\* closeSharedRemotionBrowser(), up to its first await:
\* `if (!browserPromise) return; const b = await browserPromise;`
CloseBegin(k) ==
    /\ closer[k].pc = "idle"
    /\ closer' = [closer EXCEPT ![k] =
           IF HasSharedPromise(browserPromise)
             THEN [pc |-> "awaiting", p |-> browserPromise, when |-> CalledWhen(k)]
             ELSE [pc |-> "noop", p |-> 0, when |-> CalledWhen(k)]]
    /\ UNCHANGED <<browserPromise, launches, caller, tvars, rvars, svars, nvars, qvars>>

\* The await resumes. A resolved promise: `browserPromise = null;` and
\* `b.close()` is called on the Browser of the awaited launch. A rejected
\* promise: the await throws, closeSharedRemotionBrowser rejects, and
\* browserPromise keeps the rejected promise.
CloseResume(k) ==
    /\ closer[k].pc = "awaiting"
    /\ launches[closer[k].p].st # "pending"
    /\ IF launches[closer[k].p].st = "resolved"
         THEN /\ browserPromise' = 0
              /\ launches' = [launches EXCEPT ![closer[k].p].closes = @ + 1]
              /\ closer' = [closer EXCEPT ![k].pc = "closing"]
         ELSE /\ closer' = [closer EXCEPT ![k].pc = "threw"]
              /\ UNCHANGED <<browserPromise, launches>>
    /\ UNCHANGED <<caller, tvars, rvars, svars, nvars, qvars>>

\* `await b.close()` completes: the Browser closed and the teardown returns
\* ("done"), or close() rejected (the Chromium process had already died,
\* the connection was lost) and the teardown rejects with that error
\* ("closeThrew"), browserPromise having been set to null before.
CloseDone(k) ==
    /\ closer[k].pc = "closing"
    /\ \E closed \in BOOLEAN :
          closer' = [closer EXCEPT ![k].pc = IF closed THEN "done" ELSE "closeThrew"]
    /\ UNCHANGED <<browserPromise, launches, caller, tvars, rvars, svars, nvars, qvars>>

\* A closeSharedRemotionBrowser() call is suspended at its await of this
\* promise: a teardown of it has started and has not yet closed anything.
TeardownInProgress(bp) ==
    \E k \in Closers : closer[k].pc = "awaiting" /\ closer[k].p = bp

\* The jobs of a worker that is being shut down: the first caller brings the
\* handle up, every other caller calls getSharedRemotionBrowser() while a
\* teardown of the current promise is in progress.
FirstCaller == 1
LateCallers == Callers \ {FirstCaller}

AcquireDuringTeardown(c) ==
    /\ TeardownInProgress(browserPromise)
    /\ getSharedRemotionBrowser(c)

InitBrowser ==
    /\ browserPromise = 0
    /\ launches = << >>
    /\ caller = [c \in Callers |-> [pc |-> "idle", p |-> 0, stale |-> FALSE]]
    /\ closer = [k \in Closers |-> [pc |-> "idle", p |-> 0, when |-> "idle"]]

NextBrowser ==
    \/ \E c \in Callers : getSharedRemotionBrowser(c)
    \/ \E l \in 1..MaxLaunches : LaunchResolves(l)
    \/ \E l \in 1..MaxLaunches : LaunchRejects(l)
    \/ \E c \in Callers : CallerObserves(c)
    \/ \E k \in Closers : CloseBegin(k)
    \/ \E k \in Closers : CloseResume(k)
    \/ \E k \in Closers : CloseDone(k)

\* The handle while it is only acquired: no closeSharedRemotionBrowser()
\* call is made.
NextAcquire ==
    \/ \E c \in Callers : getSharedRemotionBrowser(c)
    \/ \E l \in 1..MaxLaunches : LaunchResolves(l)
    \/ \E l \in 1..MaxLaunches : LaunchRejects(l)
    \/ \E c \in Callers : CallerObserves(c)

NextTeardownRace ==
    \/ getSharedRemotionBrowser(FirstCaller)
    \/ \E c \in LateCallers : AcquireDuringTeardown(c)
    \/ \E l \in 1..MaxLaunches : LaunchResolves(l)
    \/ \E l \in 1..MaxLaunches : LaunchRejects(l)
    \/ \E c \in Callers : CallerObserves(c)
    \/ \E k \in Closers : CloseBegin(k)
    \/ \E k \in Closers : CloseResume(k)
    \/ \E k \in Closers : CloseDone(k)

\* ------------------------------------------------ properties: teardown
\* A teardown that has run to its end, by returning or by throwing.
TeardownOver(k) == closer[k].pc \in {"noop", "done", "threw", "closeThrew"}

\* C15 (as claimed): a teardown called before any launch is a no-op; a
\* teardown called after a completed one (no launch in between) is a no-op,
\* so it neither closes the engine again nor throws; and once a teardown
\* of the latest launch is over the handle is reset (browserPromise is null).
C15_TeardownIdempotent ==
    \A k \in Closers :
        /\ closer[k].when \in {"never", "again"} => closer[k].pc = "noop"
        /\ (TeardownOver(k) /\ closer[k].when # "idle" /\ closer[k].p = Len(launches)
               /\ closer[k].pc # "noop")
              => browserPromise = 0

\* ------------------------------------------------------- transcode stage
\* convertVideoToWebP is defined twice in the source: the first definition
\* (revision 1) clamps the quality and passes it as -q:v, the second
\* (revision 2) passes the raw quality as -quality. Both have the same
\* try/catch and cleanup structure.
Revisions == {1, 2}

\* An option the caller left out (`undefined`).
NoOption == 0 - 1
QualityMin == 60
QualityMax == 70
DefaultQuality == 85
DefaultFps == 30

Max2(a, b) == IF a >= b THEN a ELSE b
Min2(a, b) == IF a <= b THEN a ELSE b

\* `options?.quality ?? 85`
OptionOr(v, dflt) == IF v = NoOption THEN dflt ELSE v

\* The quality that appears in the ffmpeg command line.
\* Revision 1: `Math.max(60, Math.min(70, quality))`; revision 2: `quality`.
CommandQuality(rev, quality) ==
    IF rev = 1 THEN Max2(QualityMin, Min2(QualityMax, quality)) ELSE quality

\* Values of Date.now() and of Math.random().toString(36).substring(7) (the
\* latter may be the empty string) used to build the temporary file names.
NowValues == {1000, 1001}
RandomSuffixes == {"", "k3f9x"}
QualityInputs == {NoOption, 10, 65, 99}
FpsInputs == {NoOption, 15}

TempPath(prefix, now, suffix, ext) == <<prefix, now, suffix, ext>>

\* ffmpeg's diagnostic stream, as a sequence of characters: nothing,
\* "fps=30", "nErrors=0", "Error: bad", "2 Errors", "error: bad".
StderrTexts ==
    { << >>,
      <<"f", "p", "s", "=", "3", "0">>,
      <<"n", "E", "r", "r", "o", "r", "s", "=", "0">>,
      <<"E", "r", "r", "o", "r", ":", " ", "b", "a", "d">>,
      <<"2", " ", "E", "r", "r", "o", "r", "s">>,
      <<"e", "r", "r", "o", "r", ":", " ", "b", "a", "d">> }

\* The string "Error" of the stderr test.
ErrorPattern == <<"E", "r", "r", "o", "r">>

\* String.prototype.includes: `word` occurs in `text` at some position, as
\* a run of consecutive characters (case-sensitive).
Includes(text, word) ==
    \E i \in 1..(Len(text) - Len(word) + 1) :
        SubSeq(text, i, i + Len(word) - 1) = word

\* `stderr && stderr.includes("Error")`
StderrHasError(stderr) == stderr # << >> /\ Includes(stderr, ErrorPattern)

\* `execAsync(ffmpegCommand)`, exec promisified with its default options:
\* what the awaited call throws. exec buffers stdout and stderr, each up
\* to maxBuffer (1 MiB): a stream that passes it (`overflow` names it,
\* "none" when neither does) makes exec kill the `sh -c` shell it spawned
\* and reject with an error that names the stream, whatever the exit code
\* (the ffmpeg process, a child of that shell, may live on); otherwise a
\* non-zero exit rejects with an error whose message holds the command and
\* the diagnostic text; otherwise the call resolves.
Overflows == {"none", "stdout", "stderr"}

execAsync(exit, stderr, overflow) ==
    IF overflow # "none"
      THEN [at |-> "maxBuffer", msg |-> <<overflow, " maxBuffer length exceeded">>]
      ELSE IF exit # 0
        THEN [at |-> "exit", msg |-> <<"Command failed: ffmpeg", "\n">> \o stderr]
        ELSE [at |-> "none", msg |-> << >>]

\* Which temporary files each branch removes before it leaves:
\* `await unlink(inputPath).catch(() => {}); await unlink(outputPath).catch(() => {});`
\* in the try block (success) and again in the catch block (error).
CleanupTargets(branch) == {"input", "output"}

\* unlink(path): removes the file; rejects when the file is absent (ENOENT)
\* or when the removal itself fails (EPERM, EBUSY, ...), leaving the file.
Unlink(files, path, fails) ==
    IF path \in files /\ ~fails THEN files \ {path} ELSE files
UnlinkRejects(files, path, fails) == path \notin files \/ fails

NoError == [at |-> "none", msg |-> << >>]

\* `unlink(path).catch(() => {})`: what the awaited expression throws. The
\* empty handler turns a rejected removal into a resolved promise.
(* Variant used to test the properties: the rejection is not caught. *)
UnlinkCatchMissing(rejected) ==
    IF rejected THEN [at |-> "unlink", msg |-> <<"EPERM">>] ELSE NoError

UnlinkCatch(rejected) == NoError

\* `throw new Error("Failed to convert video to WebP: " + error.message)`
WrapError(e) == [e EXCEPT !.msg = <<"Failed to convert video to WebP: ">> \o e.msg]

\* Where control goes after the ffmpeg step: on to readFile, or, when
\* execAsync rejected or the stderr test threw, into the catch block.
(* Variant used to test the properties: a failed run is tried again. *)
AfterExecRetry(failed) == IF failed THEN "exec" ELSE "read"

AfterExec(failed) == IF failed THEN "unlinkIn" ELSE "read"

TcIdle ==
    [pc |-> "idle", rev |-> 1, quality |-> 0, fps |-> 0, inputPath |-> << >>,
     outputPath |-> << >>, cmdQuality |-> 0, branch |-> "try", err |-> NoError,
     bytes |-> "none", execs |-> 0, created |-> {}, rmTried |-> {}, rmFailed |-> {},
     exit |-> 0, stderr |-> << >>, overflow |-> "none", read |-> "none",
     primary |-> NoError, rmRejected |-> {}, child |-> "none"]

\* Entry: the options are defaulted and the two temporary paths are built.
ConvertCall ==
    /\ tc.pc = "idle"
    /\ \E rev \in Revisions, q \in QualityInputs, f \in FpsInputs,
          t1 \in NowValues, t2 \in NowValues, s1 \in RandomSuffixes, s2 \in RandomSuffixes :
          /\ t1 <= t2
          /\ tc' = [tc EXCEPT !.pc = "write", !.rev = rev,
                       !.quality = OptionOr(q, DefaultQuality),
                       !.fps = OptionOr(f, DefaultFps),
                       !.inputPath = TempPath("input", t1, s1, "mp4"),
                       !.outputPath = TempPath("output", t2, s2, "webp")]
    /\ UNCHANGED <<fs, bvars, rvars, svars, nvars, qvars>>

\* `await writeFile(inputPath, videoBuffer)`: succeeds, or fails with the
\* file either not created or left behind partially written.
WriteInput ==
    /\ tc.pc = "write"
    /\ \E ok \in BOOLEAN, left \in BOOLEAN :
          /\ ok => left
          /\ fs' = IF left THEN fs \cup {tc.inputPath} ELSE fs
          /\ tc' = IF ok
                     THEN [tc EXCEPT !.pc = "exec", !.created = @ \cup {"input"}]
                     ELSE [tc EXCEPT !.pc = "unlinkIn", !.branch = "catch",
                              !.created = IF left THEN @ \cup {"input"} ELSE @,
                              !.err = [at |-> "write", msg |-> <<"ENOSPC">>],
                              !.primary = [at |-> "write", msg |-> <<"ENOSPC">>]]
    /\ UNCHANGED <<bvars, rvars, svars, nvars, qvars>>

\* `const { stderr } = await execAsync(ffmpegCommand)` and the stderr test.
\* The subprocess exits 0 or not, prints some diagnostic text (`stderr`
\* is that text, or what of it was captured when the stream overflowed
\* maxBuffer), prints on stdout or not, and may or may not have produced
\* the output file by the time execAsync settles. After an overflow the
\* ffmpeg process may have outlived the shell (`child` is "running") without
\* having created the output file yet.
RunFfmpeg ==
    /\ tc.pc = "exec"
    /\ \E exit \in {0, 1}, stderr \in StderrTexts, wrote \in BOOLEAN,
          overflow \in Overflows, survives \in BOOLEAN :
          /\ overflow = "stderr" => stderr # << >>
          /\ survives => (overflow # "none" /\ ~wrote)
          /\ fs' = IF wrote THEN fs \cup {tc.outputPath} ELSE fs
          /\ LET rejected == execAsync(exit, stderr, overflow)
                 e == IF rejected # NoError
                         THEN rejected
                         ELSE IF StderrHasError(stderr)
                           THEN [at |-> "stderr", msg |-> <<"FFmpeg conversion failed: ">> \o stderr]
                           ELSE NoError
             IN tc' = [tc EXCEPT
                 !.overflow = overflow,
                 !.child = IF survives THEN "running" ELSE "none",
                 !.execs = @ + 1,
                 !.cmdQuality = CommandQuality(tc.rev, tc.quality),
                 !.created = IF wrote THEN @ \cup {"output"} ELSE @,
                 !.exit = exit,
                 !.stderr = stderr,
                 !.pc = AfterExec(e # NoError),
                 !.branch = IF e = NoError THEN "try" ELSE "catch",
                 !.err = e,
                 !.primary = e]
    /\ UNCHANGED <<bvars, rvars, svars, nvars, qvars>>

\* The ffmpeg process that outlived an overflowed exec creates its output
\* file: nothing waits for it, so this happens before, between or after
\* the removals of the catch block, also once the call has thrown.
FfmpegWritesLate ==
    /\ tc.child = "running"
    /\ fs' = fs \cup {tc.outputPath}
    /\ tc' = [tc EXCEPT !.child = "none"]
    /\ UNCHANGED <<bvars, rvars, svars, nvars, qvars>>

\* `const webpBuffer = await readFile(outputPath)`: fails when the file is
\* missing or cannot be read.
ReadOutput ==
    /\ tc.pc = "read"
    /\ \E readable \in BOOLEAN :
          tc' = IF tc.outputPath \in fs /\ readable
                  THEN [tc EXCEPT !.pc = "unlinkIn", !.bytes = "webp", !.read = "ok"]
                  ELSE [tc EXCEPT !.pc = "unlinkIn", !.branch = "catch",
                           !.read = IF tc.outputPath \in fs THEN "unreadable" ELSE "missing",
                           !.err = [at |-> "read", msg |-> <<"ENOENT">>],
                           !.primary = [at |-> "read", msg |-> <<"ENOENT">>]]
    /\ UNCHANGED <<fs, bvars, rvars, svars, nvars, qvars>>

\* `await unlink(inputPath).catch(() => {})` of either branch.
UnlinkInput ==
    /\ tc.pc = "unlinkIn"
    /\ \E fails \in BOOLEAN :
          LET rejected == UnlinkRejects(fs, tc.inputPath, fails)
              e == UnlinkCatch(rejected)
          IN IF "input" \in CleanupTargets(tc.branch)
            THEN /\ fs' = Unlink(fs, tc.inputPath, fails)
                 /\ tc' = [tc EXCEPT
                              !.pc = IF e = NoError THEN "unlinkOut" ELSE "threw",
                              !.err = IF e = NoError THEN @ ELSE e,
                              !.bytes = IF e = NoError THEN @ ELSE "none",
                              !.rmTried = @ \cup {"input"},
                              !.rmRejected = IF rejected THEN @ \cup {"input"} ELSE @,
                              !.rmFailed = IF tc.inputPath \in fs /\ fails
                                             THEN @ \cup {"input"} ELSE @]
            ELSE /\ fs' = fs
                 /\ tc' = [tc EXCEPT !.pc = "unlinkOut"]
    /\ UNCHANGED <<bvars, rvars, svars, nvars, qvars>>

\* `await unlink(outputPath).catch(() => {})` of either branch, and the exit
\* that follows it: `return webpBuffer` (try) or the wrapped throw (catch).
UnlinkOutput ==
    /\ tc.pc = "unlinkOut"
    /\ \E fails \in BOOLEAN :
          LET rejected == UnlinkRejects(fs, tc.outputPath, fails)
              e == IF "output" \in CleanupTargets(tc.branch)
                     THEN UnlinkCatch(rejected) ELSE NoError
              done == [tc EXCEPT
                          !.pc = IF tc.branch = "try" /\ e = NoError THEN "returned" ELSE "threw",
                          !.bytes = IF tc.branch = "try" /\ e = NoError THEN @ ELSE "none",
                          !.err = IF e # NoError THEN e
                                  ELSE IF tc.branch = "try" THEN @ ELSE WrapError(@)]
          IN IF "output" \in CleanupTargets(tc.branch)
               THEN /\ fs' = Unlink(fs, tc.outputPath, fails)
                    /\ tc' = [done EXCEPT
                                 !.rmTried = @ \cup {"output"},
                                 !.rmRejected = IF rejected THEN @ \cup {"output"} ELSE @,
                                 !.rmFailed = IF tc.outputPath \in fs /\ fails
                                                THEN @ \cup {"output"} ELSE @]
               ELSE /\ fs' = fs
                    /\ tc' = done
    /\ UNCHANGED <<bvars, rvars, svars, nvars, qvars>>

InitTranscode ==
    /\ fs = {}
    /\ tc = TcIdle

NextTranscode ==
    \/ ConvertCall
    \/ WriteInput
    \/ RunFfmpeg
    \/ FfmpegWritesLate
    \/ ReadOutput
    \/ UnlinkInput
    \/ UnlinkOutput

\* ------------------------------------------------ properties: transcode stage
ConvertDone == tc.pc \in {"returned", "threw"}

\* The temporary files of the invocation that exist now.
Leftover ==
    (IF tc.inputPath \in fs THEN {"input"} ELSE {}) \cup
    (IF tc.outputPath \in fs THEN {"output"} ELSE {})

\* C3 (as claimed): after convertVideoToWebP returns, neither temporary file
\* exists, on every exit path.
C3_NoTempFilesLeft == ConvertDone => Leftover = {}

\* C12 (as claimed): the quality on every ffmpeg command line lies in
\* [60, 70], whatever quality the caller supplied or left to the default.
C12_QualityWithinRange ==
    tc.execs >= 1 => tc.cmdQuality \in QualityMin..QualityMax

IsSuffix(suffix, text) ==
    /\ Len(suffix) <= Len(text)
    /\ SubSeq(text, Len(text) - Len(suffix) + 1, Len(text)) = suffix

\* C13: once ffmpeg has been run, the call throws (and returns no bytes)
\* whenever ffmpeg exited non-zero, its stderr contains "Error", or the
\* output file was missing or unreadable; in the first two cases the thrown
\* message ends with ffmpeg's stderr text.
C13_TranscodeFailureReported ==
    (ConvertDone /\ tc.execs >= 1) =>
        /\ (tc.exit # 0 \/ Includes(tc.stderr, ErrorPattern)
                \/ tc.read \in {"missing", "unreadable"})
               => (tc.pc = "threw" /\ tc.bytes = "none")
        /\ (tc.exit # 0 \/ Includes(tc.stderr, ErrorPattern))
               => IsSuffix(tc.stderr, tc.err.msg)

\* C14: a rejected removal never changes the outcome: when no step before
\* the cleanup failed the call returns the WebP bytes, and otherwise it
\* throws the wrapped error of the step that failed.
C14_RemovalFailureIgnored ==
    (ConvertDone /\ tc.rmRejected # {}) =>
        IF tc.primary = NoError
          THEN tc.pc = "returned" /\ tc.bytes = "webp" /\ tc.err = NoError
          ELSE /\ tc.pc = "threw"
               /\ tc.err = WrapError(tc.primary)
               /\ tc.primary.at \in {"write", "exit", "maxBuffer", "stderr", "read"}

\* Witness C14: both files existed, both removals failed, and the call
\* still returned the bytes.
W_C14 ==
    /\ tc.pc = "returned"
    /\ tc.bytes = "webp"
    /\ tc.rmFailed = {"input", "output"}
    /\ tc.rmRejected = {"input", "output"}

\* C25: one call of convertVideoToWebP runs ffmpeg at most once, and
\* exactly once when it got as far as the ffmpeg step, whether ffmpeg
\* succeeded or failed.
C25_NoInternalRetry ==
    /\ tc.execs <= 1
    /\ (ConvertDone /\ tc.err.at \in {"exit", "stderr", "read"}) => tc.execs = 1
    /\ tc.pc = "returned" => tc.execs = 1

\* Witness C25: ffmpeg exited non-zero and the call has thrown after that
\* single run.
W_C25 ==
    /\ tc.pc = "threw"
    /\ tc.exit = 1
    /\ tc.primary.at = "exit"
    /\ tc.execs = 1

\* ---------------------------------------------- retry / timeout combinator
\* Thrown values. An Error carries a message; anything else is a plain value.
\* Messages are sequences of tokens (template literals are concatenations).
ErrorOf(message) == [isError |-> TRUE, message |-> message, value |-> << >>]
Thrown(value) == [isError |-> FALSE, message |-> << >>, value |-> value]
Undefined == Thrown(<<"undefined">>)

\* formatError: `err instanceof Error ? err.message : String(err)`
formatError(err) == IF err.isError THEN err.message ELSE err.value

\* What one invocation of the wrapped operation does: it resolves with a
\* value ("ok") or rejects ("raise") after `dur` milliseconds, or never
\* settles ("hang"). `tie` says which of the two is served first by the
\* event loop when the operation settles in the very millisecond the timer
\* of withTimeout falls due: the operation ("op") or the timer ("timer").
Outcome(kind, dur, val, err) ==
    [kind |-> kind, dur |-> dur, val |-> val, err |-> err, tie |-> "op"]
TimerFirst(out) == [out EXCEPT !.tie = "timer"]
NoOutcome == Outcome("none", 0, "", Undefined)

\* Promise.race: the operation's promise settles the race when it settles
\* before the timer fires; the timer's `reject` is a no-op afterwards.
SettlesWithin(out, timeoutMs) ==
    /\ out.kind # "hang"
    /\ \/ out.dur < timeoutMs
       \/ out.dur = timeoutMs /\ out.tie = "op"

\* What the operation can be to a race with a timer of timeoutMs: each of
\* `outs`, either way round when it settles as the timer falls due.
Racing(outs, timeoutMs) ==
    outs \cup {TimerFirst(o) : o \in {x \in outs : x.kind # "hang" /\ x.dur = timeoutMs}}

\* `reject(new Error(`${name} timed out after ${timeoutMs}ms`))`
TimeoutError(name, timeoutMs) ==
    ErrorOf(name \o <<" timed out after ", timeoutMs, "ms">>)

\* (Variant used to test the properties: the timer resolves the race with
\* undefined instead of rejecting it.)
withTimeoutResolving(out, timeoutMs, name) ==
    IF SettlesWithin(out, timeoutMs)
      THEN [kind |-> out.kind, val |-> out.val, err |-> out.err, took |-> out.dur]
      ELSE [kind |-> "ok", val |-> "undefined", err |-> Undefined, took |-> timeoutMs]

\* withTimeout: Promise.race of the operation and a timer that rejects after
\* timeoutMs. `took` is the time the race lasted.
withTimeout(out, timeoutMs, name) ==
    IF SettlesWithin(out, timeoutMs)
      THEN [kind |-> out.kind, val |-> out.val, err |-> out.err, took |-> out.dur]
      ELSE [kind |-> "raise", val |-> "", err |-> TimeoutError(name, timeoutMs),
            took |-> timeoutMs]

\* `throw new Error(`${name} failed after ${attempts} attempts: ${formatError(lastErr)}`)`
AggregatedError(name, attempts, lastErr) ==
    ErrorOf(name \o <<" failed after ", attempts, " attempts: ">> \o formatError(lastErr))

\* Defaults of withRetry's destructuring: attempts = 10, delayMs = 1500,
\* timeoutMs = 15000.
RetryDefault(field) ==
    CASE field = "attempts" -> 10
      [] field = "delayMs" -> 1500
      [] field = "timeoutMs" -> 15000

RtNone ==
    [status |-> "none", name |-> << >>, attempts |-> 0, delayMs |-> 0, timeoutMs |-> 0,
     attempt |-> 0, lastErr |-> Undefined, res |-> "", err |-> Undefined,
     sleeps |-> 0, elapsed |-> 0]

\* The loop test `attempt <= attempts` failing: the throw after the loop.
LoopExit(w) ==
    IF w.status = "running" /\ w.attempt > w.attempts
      THEN [w EXCEPT !.status = "threw",
                     !.err = AggregatedError(w.name, w.attempts, w.lastErr)]
      ELSE w

\* `withTimeout(fn(), timeoutMs, name)` up to its await: fn() has been
\* called and the race between its promise and the timer is on.
RetryInvoke(w) == IF w.status = "running" THEN [w EXCEPT !.status = "racing"] ELSE w

\* withRetry up to its first await: the destructuring of the options, the
\* first loop test and, when it passes, the first call of fn().
RetryEnter(opts) ==
    RetryInvoke(LoopExit([RtNone EXCEPT
        !.status = "running", !.name = opts.name,
        !.attempts = OptionOr(opts.attempts, RetryDefault("attempts")),
        !.delayMs = OptionOr(opts.delayMs, RetryDefault("delayMs")),
        !.timeoutMs = OptionOr(opts.timeoutMs, RetryDefault("timeoutMs")),
        !.attempt = 1]))

\* (Variant used to test the properties: a success does not leave the loop.)
RetryIterationNoReturn(w, out) ==
    LET t == withTimeout(out, w.timeoutMs, w.name)
        failed == [w EXCEPT !.lastErr = IF t.kind = "ok" THEN @ ELSE t.err,
                            !.res = IF t.kind = "ok" THEN t.val ELSE @,
                            !.elapsed = @ + t.took]
    IN IF w.attempt < w.attempts
         THEN [failed EXCEPT !.status = "sleeping", !.sleeps = @ + 1]
         ELSE LoopExit([failed EXCEPT !.status = "running", !.attempt = @ + 1])

\* (Variant used to test the properties: only the first error is kept.)
RetryIterationFirstError(w, out) ==
    LET t == withTimeout(out, w.timeoutMs, w.name)
        failed == [w EXCEPT !.lastErr = IF w.attempt = 1 THEN t.err ELSE @,
                            !.elapsed = @ + t.took]
    IN IF t.kind = "ok"
         THEN [w EXCEPT !.status = "returned", !.res = t.val, !.elapsed = @ + t.took]
         ELSE IF w.attempt < w.attempts
           THEN [failed EXCEPT !.status = "sleeping", !.sleeps = @ + 1]
           ELSE LoopExit([failed EXCEPT !.status = "running", !.attempt = @ + 1])

\* (Variant used to test the properties: the catch block always sleeps.)
RetryIterationAlwaysSleeps(w, out) ==
    LET t == withTimeout(out, w.timeoutMs, w.name)
        failed == [w EXCEPT !.lastErr = t.err, !.elapsed = @ + t.took]
    IN IF t.kind = "ok"
         THEN [w EXCEPT !.status = "returned", !.res = t.val, !.elapsed = @ + t.took]
         ELSE [failed EXCEPT !.status = "sleeping", !.sleeps = @ + 1]

\* withRetry resumed from `await withTimeout(...)`, `out` being what fn()
\* did this time, up to the next point where it waits or leaves:
\* `const res = await ...; return res;`, or the catch block:
\* `lastErr = err; if (attempt < attempts) await sleep(delayMs);` -- the
\* sleep begins -- and, when there is no sleep, `attempt++`, the loop test
\* and the throw after the loop.
RetryIteration(w, out) ==
    LET t == withTimeout(out, w.timeoutMs, w.name)
        failed == [w EXCEPT !.lastErr = t.err, !.elapsed = @ + t.took]
    IN IF t.kind = "ok"
         THEN [w EXCEPT !.status = "returned", !.res = t.val, !.elapsed = @ + t.took]
         ELSE IF w.attempt < w.attempts
           THEN [failed EXCEPT !.status = "sleeping", !.sleeps = @ + 1]
           ELSE LoopExit([failed EXCEPT !.status = "running", !.attempt = @ + 1])

\* withRetry resumed from `await sleep(delayMs)`: `attempt++`, the loop
\* test and the next call of fn() (or the throw after the loop).
RetryWake(w) ==
    RetryInvoke(LoopExit([w EXCEPT !.status = "running", !.attempt = @ + 1,
                                   !.elapsed = @ + w.delayMs]))

\* The record of what the operation was asked to do: after a step that
\* left withRetry in state `w` (one more invocation when a race is on) ...
Invoked(o, w) == IF w.status = "racing" THEN [o EXCEPT !.n = @ + 1] ELSE o

\* ... and after the race of the last invocation was settled, `out` being
\* what the operation did.
Settled(o, out, timeoutMs) ==
    [o EXCEPT !.bad = @ + (IF SettlesWithin(out, timeoutMs) /\ out.kind = "ok" THEN 0 ELSE 1),
              !.last = out]

OpsNone == [n |-> 0, bad |-> 0, last |-> NoOutcome]

\* Inputs of the combinator on its own. 100 is also a value of timeoutMs:
\* an operation that takes 100 ms settles when the timer falls due.
MaxAttempts == 3
OpDurations == {10, 100, 3000}
OpValues == {"v1", "v2"}
OpErrors == {ErrorOf(<<"ECONNREFUSED">>), ErrorOf(<<"EAUTH">>), Thrown(<<"boom">>)}
OpOutcomes ==
    {Outcome("ok", d, v, Undefined) : d \in OpDurations, v \in OpValues}
    \cup {Outcome("raise", d, "", e) : d \in OpDurations, e \in OpErrors}
    \cup {Outcome("hang", 0, "", Undefined)}
RetryOptions ==
    [name : {<<"op">>},
     attempts : {NoOption} \cup 0..MaxAttempts,
     delayMs : {NoOption, 0, 50},
     timeoutMs : {NoOption, 100}]

\* withRetry(fn, opts) is called and runs up to its first await.
RetryCall ==
    /\ rt.status = "none"
    /\ \E opts \in RetryOptions :
          /\ rt' = RetryEnter(opts)
          /\ ops' = Invoked(OpsNone, RetryEnter(opts))
    /\ UNCHANGED <<bvars, tvars, svars, nvars, qvars>>

\* withRetry is resumed from the await it is suspended at: the race of
\* line 330 has been settled, by fn() doing one of the things an operation
\* can do or by the timer; or the sleep of line 335 is over.
RetryResume ==
    /\ rt.status \in {"racing", "sleeping"}
    /\ IF rt.status = "racing"
         THEN \E out \in Racing(OpOutcomes, rt.timeoutMs) :
                 /\ rt' = RetryIteration(rt, out)
                 /\ ops' = Settled(ops, out, rt.timeoutMs)
         ELSE /\ rt' = RetryWake(rt)
              /\ ops' = Invoked(ops, RetryWake(rt))
    /\ UNCHANGED <<bvars, tvars, svars, nvars, qvars>>

InitRetry ==
    /\ rt = RtNone
    /\ ops = OpsNone

NextRetry ==
    \/ RetryCall
    \/ RetryResume

\* ------------------------------------------- properties: retry combinator
\* The error withRetry sees for an invocation that did `out`.
AttemptError(out, name, timeoutMs) ==
    IF SettlesWithin(out, timeoutMs) THEN out.err ELSE TimeoutError(name, timeoutMs)

\* The invocations whose race has been settled.
RacesSettled == ops.n - (IF rt.status = "racing" THEN 1 ELSE 0)

\* C4: withRetry invokes the operation at most `attempts` times; it returns
\* exactly when an invocation has resolved within the deadline, with that
\* invocation's value, and that invocation is the last one made.
C4_AtMostAttemptsReturnFirstSuccess ==
    rt.status # "none" =>
        /\ ops.n <= rt.attempts
        /\ (rt.status = "returned") <=>
               (ops.n > 0 /\ SettlesWithin(ops.last, rt.timeoutMs) /\ ops.last.kind = "ok")
        /\ rt.status = "returned" => rt.res = ops.last.val /\ ops.bad = ops.n - 1

\* Witness C4: the second of three allowed attempts succeeded and withRetry
\* returned its value without a third attempt.
W_C4 ==
    /\ rt.status = "returned"
    /\ rt.attempts = 3
    /\ ops.n = 2
    /\ rt.res = "v2"

\* C5: withRetry fails only after all `attempts` invocations have failed, and
\* the error it throws names the operation, the number of attempts and the
\* error of the last invocation.
C5_FailsAfterAllAttemptsWithLastError ==
    rt.status = "threw" =>
        /\ ops.n = rt.attempts
        /\ ops.bad = rt.attempts
        /\ rt.err.isError
        /\ rt.attempts >= 1 =>
               rt.err.message =
                   rt.name \o <<" failed after ", rt.attempts, " attempts: ">>
                       \o formatError(AttemptError(ops.last, rt.name, rt.timeoutMs))

\* Witness C5: three attempts failed, the last one with an error raised by
\* the operation, and withRetry has thrown.
W_C5 ==
    /\ rt.status = "threw"
    /\ rt.attempts = 3
    /\ ops.n = 3
    /\ ops.last.kind = "raise"
    /\ SettlesWithin(ops.last, rt.timeoutMs)

\* C6: an invocation that has not settled within the deadline is a failed
\* attempt whose recorded error is the timeout error, and an invocation that
\* rejected in time is recorded with its own error, whose text differs from
\* the timeout text.
C6_TimeoutIsFailureAndDistinct ==
    (rt.status # "none" /\ RacesSettled > 0) =>
        /\ ~SettlesWithin(ops.last, rt.timeoutMs) =>
               /\ rt.status # "returned"
               /\ rt.lastErr = TimeoutError(rt.name, rt.timeoutMs)
               /\ ops.bad = RacesSettled
        /\ (SettlesWithin(ops.last, rt.timeoutMs) /\ ops.last.kind = "raise") =>
               /\ rt.lastErr = ops.last.err
               /\ formatError(rt.lastErr) # formatError(TimeoutError(rt.name, rt.timeoutMs))

\* Witness C6: the only attempt allowed never settled and withRetry has
\* thrown the aggregated error holding the timeout text.
W_C6 ==
    /\ rt.status = "threw"
    /\ ops.n = 1
    /\ ops.last.kind = "hang"
    /\ rt.err = AggregatedError(rt.name, 1, TimeoutError(rt.name, rt.timeoutMs))

\* C20: withRetry sleeps delayMs only between attempts: one sleep after each
\* failed attempt but the last. While it runs and when it returns, the sleeps
\* begun number the failed attempts so far; when it throws after `attempts` failed
\* attempts, they number attempts - 1.
C20_SleepsOnlyBetweenAttempts ==
    /\ rt.status \in {"racing", "sleeping", "returned"} => rt.sleeps = ops.bad
    /\ rt.status = "threw" =>
           /\ ops.bad = rt.attempts
           /\ rt.sleeps = IF rt.attempts >= 1 THEN rt.attempts - 1 ELSE 0

\* Witness C20: all three attempts failed and withRetry has thrown after
\* two sleeps.
W_C20 ==
    /\ rt.status = "threw"
    /\ rt.attempts = 3
    /\ ops.bad = 3
    /\ rt.sleeps = 2
    /\ rt.delayMs = 50

\* ------------------------------------------------------ dependency checks
CheckedDeps == {"redis", "minio", "github"}
AllDeps == CheckedDeps \cup {"warmup"}

\* env.MINIO_BUCKET
Bucket == "github-stats"

\* The validated environment, as far as the checks read it (every value a
\* string once interpolated).
env ==
    [REDIS_URL |-> "redis://localhost:6379",
     MINIO_ENDPOINT |-> "localhost",
     MINIO_PORT |-> "9000",
     MINIO_BUCKET |-> Bucket,
     GITHUB_APP_ID |-> "12345"]

\* `redis.ping()`: a round trip that reads nothing and writes nothing.
(* Variant used to test the properties: the probe writes a marker key. *)
RedisPingWritesKey(keys) == keys \cup {"healthcheck"}

RedisPing(keys) == keys

\* ensureBucket() of services/storage: creates the bucket when it is absent.
EnsureBucket(buckets) == buckets \cup {Bucket}

\* checkGitHubAppAuth() of services/github: a credential-validation round
\* trip that changes nothing at the provider.
GitHubAppAuth(state) == state

\* What the dependency's own operation may do when it is invoked: the
\* times it may take fall on each side of every timeout the dependency is
\* called with. 4000 is the timeout the readiness route gives the object
\* store and the auth provider: an operation that takes as long settles
\* the race or is overtaken by the timer and completes after it (Racing
\* has both orders); 4000 is more than the 1500 the route gives redis;
\* both are less than the timeouts of the startup checks, the only ones the
\* warmup is called with.
DepDurations(dep) == IF dep = "warmup" THEN {10} ELSE {10, 4000}
DepReplies(dep) == IF dep = "redis" THEN {"PONG", "LOADING"} ELSE {"undefined"}
DepOutcomes(dep) ==
    {Outcome("ok", d, v, Undefined) : d \in DepDurations(dep), v \in DepReplies(dep)}
    \cup {Outcome("raise", 10, "", ErrorOf(<<"ECONNREFUSED">>)),
          Outcome("hang", 0, "", Undefined)}

\* The effect of the dependency's operation on the dependency, had when
\* the operation completes. An operation that succeeds has its effect
\* whether or not withTimeout still waits for it: nothing cancels it.
DepEffect(dep, raw, d) ==
    IF raw.kind # "ok" THEN d
    ELSE CASE dep = "redis" -> [d EXCEPT !.redis = RedisPing(@)]
           [] dep = "minio" -> [d EXCEPT !.buckets = EnsureBucket(@)]
           [] dep = "github" -> [d EXCEPT !.github = GitHubAppAuth(@)]
           [] OTHER -> d

\* The async function each check hands to withRetry. checkRedisReachable:
\* `if (pong !== 'PONG') throw new Error(`Unexpected Redis PING response: ${pong}`)`;
\* the others await their operation and resolve with undefined.
\* (Variant used to test the properties: the checks have no tuning of
\* their own and fall back to withRetry's defaults.)
CheckDefaultShared(dep, field) == RetryDefault(field)

(* Variant used to test the properties: any reply of the ping is accepted. *)
CheckFnAnyReply(dep, raw) ==
    IF raw.kind # "ok" THEN raw
    ELSE [raw EXCEPT !.val = "undefined"]

CheckFn(dep, raw) ==
    IF raw.kind # "ok" THEN raw
    ELSE IF dep = "redis" /\ raw.val # "PONG"
      THEN [raw EXCEPT !.kind = "raise", !.val = "",
                       !.err = ErrorOf(<<"Unexpected Redis PING response: ", raw.val>>)]
      ELSE [raw EXCEPT !.val = "undefined"]

\* The `name` each check gives withRetry (template literals over env).
CheckName(dep) ==
    CASE dep = "redis" -> <<"Redis reachable (REDIS_URL=", env.REDIS_URL, ")">>
      [] dep = "minio" -> <<"MinIO reachable (endpoint=", env.MINIO_ENDPOINT, ":",
                            env.MINIO_PORT, ", bucket=", env.MINIO_BUCKET, ")">>
      [] dep = "github" -> <<"GitHub reachable + App auth valid (appId=",
                             env.GITHUB_APP_ID, ")">>
      [] dep = "warmup" -> <<"Remotion bundle warmup">>

\* The `opts.x ?? default` of each check (checkRendererWarmup has literals).
CheckDefault(dep, field) ==
    CASE dep = "redis" /\ field = "attempts" -> 10
      [] dep = "redis" /\ field = "delayMs" -> 1500
      [] dep = "redis" /\ field = "timeoutMs" -> 5000
      [] dep = "minio" /\ field = "attempts" -> 10
      [] dep = "minio" /\ field = "delayMs" -> 2000
      [] dep = "minio" /\ field = "timeoutMs" -> 15000
      [] dep = "github" /\ field = "attempts" -> 5
      [] dep = "github" /\ field = "delayMs" -> 2000
      [] dep = "github" /\ field = "timeoutMs" -> 15000
      [] dep = "warmup" /\ field = "attempts" -> 3
      [] dep = "warmup" /\ field = "delayMs" -> 2000
      [] dep = "warmup" /\ field = "timeoutMs" -> 120000

NoOptions == [attempts |-> NoOption, delayMs |-> NoOption, timeoutMs |-> NoOption]

\* The options object each check passes to withRetry. checkRendererWarmup
\* takes no options.
CheckOptions(dep, opts) ==
    LET o == IF dep = "warmup" THEN NoOptions ELSE opts
    IN [name |-> CheckName(dep),
        attempts |-> OptionOr(o.attempts, CheckDefault(dep, "attempts")),
        delayMs |-> OptionOr(o.delayMs, CheckDefault(dep, "delayMs")),
        timeoutMs |-> OptionOr(o.timeoutMs, CheckDefault(dep, "timeoutMs"))]

SvNone ==
    [mode |-> "none", stage |-> "none", role |-> "api",
     checks |-> [d \in CheckedDeps \cup {"server"} |-> FALSE],
     status |-> "none", code |-> 0,
     probes |-> [d \in AllDeps |-> 0],
     outs |-> [d \in AllDeps |-> NoOutcome],
     elapsed |-> 0,
     deps0 |-> deps,
     opts |-> NoOptions, prev |-> NoOptions, calls |-> 0,
     late |-> {}, called |-> FALSE, stale |-> 0]

\* `probes` counts the calls of each dependency's operation and `called`
\* says whether the attempt in progress has made its call. A step that left
\* the check's withRetry (state `w`) in a race has invoked the check's fn:
\* the fn of redis, minio and github calls the operation at once; the fn of
\* the warmup first awaits `import('../services/renderer')`. `stale` counts
\* the invocations of the warmup's fn that the timer overtook while their
\* import() was pending: nothing cancels them.
Probed(s, dep, w) ==
    IF w.status # "racing" THEN s
    ELSE IF dep = "warmup" THEN [s EXCEPT !.called = FALSE]
    ELSE [s EXCEPT !.probes[dep] = @ + 1, !.called = TRUE]

\* What the fn of the warmup does before it has called warmupBundle():
\* its import() rejects (the module failed to load), or is still pending
\* when the timer of withTimeout fires. warmupBundle() is not called by
\* then in either case.
ImportError == ErrorOf(<<"Cannot find module '../services/renderer'">>)
ImportOutcomes ==
    {Outcome("raise", 10, "", ImportError), Outcome("hang", 0, "", Undefined)}

\* `const { warmupBundle } = await import('../services/renderer')` of the
\* attempt in progress has resolved and `warmupBundle()` is called.
WarmupImported ==
    /\ sv.stage = "warmup"
    /\ rt.status = "racing"
    /\ ~sv.called
    /\ sv' = [sv EXCEPT !.called = TRUE, !.probes["warmup"] = @ + 1]
    /\ UNCHANGED <<deps, rvars, bvars, tvars, nvars, qvars>>

\* The import() of an invocation the timer overtook resolves, and that
\* invocation calls `warmupBundle()`: during the sleep, during a later
\* attempt, or after the check has thrown or returned. (An import that
\* rejects or never settles leaves `stale` as it is: no call is made.)
WarmupImportedLate ==
    /\ sv.stale > 0
    /\ sv' = [sv EXCEPT !.stale = @ - 1, !.probes["warmup"] = @ + 1]
    /\ UNCHANGED <<deps, rvars, bvars, tvars, nvars, qvars>>

\* The withRetry of the check in progress (of the readiness route, the
\* startup sequence or a single call) is resumed from the await it is
\* suspended at. From the race: the dependency's operation, once called,
\* did one of the things it can do (`outs` keeps it; before the call the
\* import has rejected or is overtaken by the timer) and either settled the race, its
\* effect had, or was overtaken by the timer; an operation overtaken that
\* will still succeed stays in flight (`late` holds the dependencies that
\* have such operations in flight: their effects are the same, so they are
\* not counted). From the sleep: the next attempt invokes the operation
\* again.
CheckResume ==
    /\ sv.stage \in AllDeps
    /\ rt.status \in {"racing", "sleeping"}
    /\ IF rt.status = "racing"
         THEN \E raw \in Racing(IF sv.called THEN DepOutcomes(sv.stage)
                                                ELSE ImportOutcomes,
                                 rt.timeoutMs) :
                 LET inTime == SettlesWithin(raw, rt.timeoutMs)
                 IN /\ rt' = RetryIteration(rt, CheckFn(sv.stage, raw))
                    /\ ops' = Settled(ops, CheckFn(sv.stage, raw), rt.timeoutMs)
                    /\ sv' = [sv EXCEPT
                           !.outs[sv.stage] = raw,
                           !.stale = IF ~sv.called /\ raw.kind = "hang" THEN @ + 1 ELSE @,
                           !.late = IF ~inTime /\ raw.kind = "ok"
                                      THEN @ \cup {sv.stage} ELSE @]
                    /\ deps' = IF inTime THEN DepEffect(sv.stage, raw, deps) ELSE deps
         ELSE /\ rt' = RetryWake(rt)
              /\ ops' = Invoked(ops, RetryWake(rt))
              /\ sv' = Probed(sv, sv.stage, RetryWake(rt))
              /\ deps' = deps
    /\ UNCHANGED <<bvars, tvars, nvars, qvars>>

\* The operations on a dependency that lost their race to the timer
\* complete: they have their effect, and nothing waits for their result
\* any more.
OperationCompletesLate ==
    /\ \E dep \in sv.late :
          /\ deps' = DepEffect(dep, Outcome("ok", 0, "", Undefined), deps)
          /\ sv' = [sv EXCEPT !.late = @ \ {dep}]
    /\ UNCHANGED <<rvars, bvars, tvars, nvars, qvars>>

\* ------------------------------------------------------------ GET /ready
\* The options the route passes to each check:
\* `{ attempts: 1, timeoutMs: 1500 | 4000, delayMs: 0 }`.
(* Variant used to test the properties: the probe allows one retry. *)
ReadyOptsWithRetry(dep) ==
    [attempts |-> 2, timeoutMs |-> IF dep = "redis" THEN 1500 ELSE 4000, delayMs |-> 0]

(* Variant used to test the properties: the probe passes no timeout, so the
   checks fall back to their startup timeouts. *)
ReadyOptsDefaultTimeout(dep) ==
    [attempts |-> 1, timeoutMs |-> NoOption, delayMs |-> 0]

ReadyOpts(dep) ==
    [attempts |-> 1, timeoutMs |-> IF dep = "redis" THEN 1500 ELSE 4000, delayMs |-> 0]

\* The order of the three try/catch blocks of the handler.
ReadyNextStage(stage) ==
    CASE stage = "redis" -> "minio"
      [] stage = "minio" -> "github"
      [] stage = "github" -> "done"

\* `Object.values(checks).every(Boolean)`
(* Variant used to test the properties: `some` instead of `every`. *)
AnyHealthy(checks) == \E k \in DOMAIN checks : checks[k]

allHealthy(checks) == \A k \in DOMAIN checks : checks[k]

\* The handler is entered: `checks` is initialised and checkRedisReachable
\* is called.
ReadyRequest ==
    /\ sv.mode = "none"
    /\ LET w == RetryEnter(CheckOptions("redis", ReadyOpts("redis")))
       IN /\ sv' = Probed([SvNone EXCEPT
                              !.mode = "ready", !.stage = "redis",
                              !.checks = [d \in CheckedDeps \cup {"server"} |-> d = "server"]],
                          "redis", w)
          /\ rt' = w
          /\ ops' = Invoked(OpsNone, w)
    /\ UNCHANGED <<deps, bvars, tvars, nvars, qvars>>

\* The check in progress has returned or thrown: the try/catch around it sets
\* its entry of `checks`; then the next check is called or, after the last
\* one, the response is built.
ReadyCheckDone ==
    /\ sv.mode = "ready"
    /\ sv.stage \in CheckedDeps
    /\ rt.status \in {"returned", "threw"}
    /\ LET checks == [sv.checks EXCEPT ![sv.stage] = (rt.status = "returned")]
           next == ReadyNextStage(sv.stage)
       IN IF next = "done"
            THEN /\ sv' = [sv EXCEPT !.checks = checks, !.stage = "done",
                              !.elapsed = @ + rt.elapsed,
                              !.status = IF allHealthy(checks) THEN "ready" ELSE "degraded",
                              !.code = IF allHealthy(checks) THEN 200 ELSE 503]
                 /\ rt' = RtNone
                 /\ ops' = OpsNone
            ELSE LET w == RetryEnter(CheckOptions(next, ReadyOpts(next)))
                 IN /\ sv' = Probed([sv EXCEPT !.checks = checks, !.stage = next,
                                                !.elapsed = @ + rt.elapsed],
                                     next, w)
                    /\ rt' = w
                    /\ ops' = Invoked(OpsNone, w)
    /\ UNCHANGED <<deps, bvars, tvars, nvars, qvars>>

NextReady ==
    \/ ReadyRequest
    \/ CheckResume
    \/ OperationCompletesLate
    \/ ReadyCheckDone

\* ------------------------------------------------------ runStartupChecks
Roles == {"api", "worker"}

\* (Variant used to test the properties: a failed check is logged and the
\* sequence goes on.)
StartupNextStageIgnoringFailure(stage, ok, role) ==
    CASE stage = "redis" -> "minio"
      [] stage = "minio" -> "github"
      [] stage = "github" -> IF role = "worker" THEN "warmup" ELSE "done"
      [] stage = "warmup" -> "done"

\* (Variant used to test the properties: the warmup is run for every role.)
StartupNextStageWarmupForAll(stage, ok, role) ==
    IF ~ok THEN "failed"
    ELSE CASE stage = "redis" -> "minio"
           [] stage = "minio" -> "github"
           [] stage = "github" -> "warmup"
           [] stage = "warmup" -> "done"

\* The sequence of awaits of runStartupChecks: a check that throws makes
\* runStartupChecks reject; `if (role === 'worker')` guards the warmup.
StartupNextStage(stage, ok, role) ==
    IF ~ok THEN "failed"
    ELSE CASE stage = "redis" -> "minio"
           [] stage = "minio" -> "github"
           [] stage = "github" -> IF role = "worker" THEN "warmup" ELSE "done"
           [] stage = "warmup" -> "done"

\* runStartupChecks({ role }) is called: validateEnv() passes or throws, and
\* checkRedisReachable() is called with no options.
StartupCall ==
    /\ sv.mode = "none"
    /\ \E role \in Roles, envValid \in BOOLEAN :
          IF envValid
            THEN LET w == RetryEnter(CheckOptions("redis", NoOptions))
                 IN /\ sv' = Probed([SvNone EXCEPT !.mode = "startup", !.stage = "redis",
                                                   !.role = role],
                                     "redis", w)
                    /\ rt' = w
                    /\ ops' = Invoked(OpsNone, w)
            ELSE /\ sv' = [SvNone EXCEPT !.mode = "startup", !.stage = "failed", !.role = role]
                 /\ rt' = RtNone
                 /\ ops' = OpsNone
    /\ UNCHANGED <<deps, bvars, tvars, nvars, qvars>>

\* The check in progress has returned or thrown: the next check is called,
\* or runStartupChecks resolves ("done") or rejects ("failed").
StartupCheckDone ==
    /\ sv.mode = "startup"
    /\ sv.stage \in AllDeps
    /\ rt.status \in {"returned", "threw"}
    /\ LET next == StartupNextStage(sv.stage, rt.status = "returned", sv.role)
           w == IF next \in AllDeps THEN RetryEnter(CheckOptions(next, NoOptions))
                                    ELSE RtNone
       IN /\ sv' = IF next \in AllDeps THEN Probed([sv EXCEPT !.stage = next], next, w)
                                        ELSE [sv EXCEPT !.stage = next]
          /\ rt' = w
          /\ ops' = Invoked(OpsNone, w)
    /\ UNCHANGED <<deps, bvars, tvars, nvars, qvars>>

\* ------------------------------------------- the checks called one by one
\* A check function is called on its own, after the previous call has
\* returned or thrown: with no options (as runStartupChecks does) or with
\* the options of the readiness route. `opts` and `prev` record the options
\* of this call and of the call before it, `calls` the number of calls.
MaxCalls == 2

CallerOptions(dep) ==
    IF dep = "warmup" THEN {NoOptions} ELSE {NoOptions, ReadyOpts(dep)}

CheckCall ==
    /\ sv.mode \in {"none", "call"}
    /\ sv.mode = "call" => rt.status \in {"returned", "threw"}
    /\ sv.calls < MaxCalls
    /\ \E dep \in AllDeps : \E opts \in CallerOptions(dep) :
          LET w == RetryEnter(CheckOptions(dep, opts))
          IN /\ sv' = Probed([SvNone EXCEPT !.mode = "call", !.stage = dep, !.opts = opts,
                                            !.prev = sv.opts, !.calls = sv.calls + 1,
                                            !.late = sv.late, !.stale = sv.stale],
                              dep, w)
             /\ rt' = w
             /\ ops' = Invoked(OpsNone, w)
    /\ UNCHANGED <<deps, bvars, tvars, nvars, qvars>>

NextCheckCalls ==
    \/ CheckCall
    \/ CheckResume
    \/ WarmupImported
    \/ WarmupImportedLate
    \/ OperationCompletesLate

InitService ==
    /\ deps \in [redis : {{"bull:render:wait"}},
                 buckets : {{}, {Bucket}, {"other"}},
                 github : {"app-installed"}]
    /\ sv = SvNone

\* No operation of DepOutcomes outlasts a timeout of the startup checks
\* (5000 ms and more): none is overtaken by its timer.
NextStartup ==
    \/ StartupCall
    \/ CheckResume
    \/ WarmupImported
    \/ WarmupImportedLate
    \/ StartupCheckDone

\* ------------------------------------ properties: readiness route, startup
\* The dependency's operation, as last invoked, did what its check accepts,
\* within `timeoutMs`: it resolved in time (redis: with the reply PONG).
OperationPassed(dep, timeoutMs) ==
    /\ sv.outs[dep].kind = "ok"
    /\ SettlesWithin(sv.outs[dep], timeoutMs)
    /\ dep = "redis" => sv.outs[dep].val = "PONG"

ReadyResponded == sv.mode = "ready" /\ sv.stage = "done"

\* C7: in a readiness probe every dependency's operation is invoked at most
\* once, and when the probe responds each of the three has been invoked
\* exactly once, whatever the others did.
C7_ProbeRunsEveryCheckOnce ==
    sv.mode = "ready" =>
        /\ \A d \in CheckedDeps : sv.probes[d] <= 1
        /\ sv.probes["warmup"] = 0
        /\ ReadyResponded => \A d \in CheckedDeps : sv.probes[d] = 1

\* Witness C7: the redis operation never settled, and the probe has still
\* run the other two checks, which passed, and responded.
W_C7 ==
    /\ ReadyResponded
    /\ sv.outs["redis"].kind = "hang"
    /\ sv.probes["minio"] = 1 /\ sv.probes["github"] = 1
    /\ sv.checks["minio"] /\ sv.checks["github"] /\ ~sv.checks["redis"]

\* C8: the response is "ready" with status 200 exactly when every
\* dependency's operation passed in this invocation, and otherwise
\* "degraded" with status 503; each reported boolean is true exactly when
\* that dependency's operation passed.
C8_VerdictMatchesChecks ==
    ReadyResponded =>
        /\ \A d \in CheckedDeps :
               sv.checks[d] <=> OperationPassed(d, ReadyOpts(d).timeoutMs)
        /\ sv.checks["server"]
        /\ IF \A d \in CheckedDeps : OperationPassed(d, ReadyOpts(d).timeoutMs)
             THEN sv.status = "ready" /\ sv.code = 200
             ELSE sv.status = "degraded" /\ sv.code = 503

\* Witness C8: redis and github passed, the object store never answered,
\* and the probe responded degraded / 503.
W_C8 ==
    /\ ReadyResponded
    /\ sv.checks["redis"] /\ sv.checks["github"] /\ ~sv.checks["minio"]
    /\ sv.outs["minio"].kind = "hang"
    /\ sv.status = "degraded" /\ sv.code = 503

\* C9 (as claimed): a readiness probe leaves the state of the queue store,
\* the object store (its set of buckets) and the auth provider unchanged.
C9_ProbeHasNoSideEffects ==
    sv.mode = "ready" => deps = sv.deps0

\* C9 (amended): a readiness probe leaves the queue store and the auth
\* provider unchanged, removes no bucket, and adds at most the configured
\* bucket, which it does only when ensureBucket succeeded.
C9_ProbeOnlyCreatesBucket ==
    sv.mode = "ready" =>
        /\ deps.redis = sv.deps0.redis
        /\ deps.github = sv.deps0.github
        /\ sv.deps0.buckets \subseteq deps.buckets
        /\ deps.buckets \ sv.deps0.buckets \subseteq {Bucket}
        /\ deps.buckets # sv.deps0.buckets => sv.outs["minio"].kind = "ok"

\* Witness C9: the probe has responded after all three checks passed and
\* the bucket, absent before, now exists.
W_C9 ==
    /\ ReadyResponded
    /\ sv.status = "ready"
    /\ Bucket \notin sv.deps0.buckets
    /\ Bucket \in deps.buckets
    /\ deps.redis = sv.deps0.redis

\* C10: runStartupChecks invokes the dependencies in the order redis, minio,
\* github, warmup (workers only), each only after the operation of the one
\* before passed; a check that has used up its attempts without passing
\* makes runStartupChecks reject with no later dependency invoked, and it
\* resolves only when every check it runs has passed.
C10_StartupSequentialFailFast ==
    sv.mode = "startup" =>
        /\ sv.probes["minio"] > 0 =>
               OperationPassed("redis", CheckDefault("redis", "timeoutMs"))
        /\ sv.probes["github"] > 0 =>
               OperationPassed("minio", CheckDefault("minio", "timeoutMs"))
        /\ sv.probes["warmup"] > 0 =>
               /\ OperationPassed("github", CheckDefault("github", "timeoutMs"))
               /\ sv.role = "worker"
        /\ \A d \in AllDeps :
               (/\ sv.probes[d] = CheckDefault(d, "attempts")
                /\ ~OperationPassed(d, CheckDefault(d, "timeoutMs")))
                   => sv.stage \in {d, "failed"}
        /\ sv.stage = "done" =>
               \A d \in CheckedDeps \cup (IF sv.role = "worker" THEN {"warmup"} ELSE {}) :
                   OperationPassed(d, CheckDefault(d, "timeoutMs"))

\* Witness C10: redis passed, the object store failed all ten attempts, and
\* runStartupChecks has rejected without invoking github or the warmup.
W_C10 ==
    /\ sv.mode = "startup"
    /\ sv.stage = "failed"
    /\ sv.probes["redis"] >= 1
    /\ sv.probes["minio"] = 10
    /\ sv.probes["github"] = 0 /\ sv.probes["warmup"] = 0

\* The last redis.ping() of the redis check in progress whose race is over
\* completed its round trip within the timeout of the call, with a reply
\* other than PONG.
OtherReply ==
    /\ sv.stage = "redis"
    /\ sv.outs["redis"].kind = "ok"
    /\ SettlesWithin(sv.outs["redis"], rt.timeoutMs)
    /\ sv.outs["redis"].val # "PONG"

\* C26: during startup checkRedisReachable returns only after a ping that
\* replied PONG in time; a ping that replied anything else is a failed
\* attempt, recorded as lastErr with the reply in its message, followed by
\* the sleep and the next attempt like any error, and by the final throw
\* when it was the tenth.
C26_OnlyPongPasses ==
    (sv.mode = "startup" /\ sv.stage = "redis") =>
        /\ rt.status = "returned" =>
               /\ sv.outs["redis"].kind = "ok"
               /\ sv.outs["redis"].val = "PONG"
               /\ SettlesWithin(sv.outs["redis"], rt.timeoutMs)
        /\ OtherReply =>
               /\ rt.status \in {"sleeping", "racing", "threw"}
               /\ ops.bad = RacesSettled
               /\ rt.lastErr = ErrorOf(<<"Unexpected Redis PING response: ",
                                         sv.outs["redis"].val>>)
               /\ rt.status = "sleeping" =>
                      (rt.attempt = sv.probes["redis"] /\ rt.sleeps = sv.probes["redis"])
               /\ rt.status = "racing" =>
                      (rt.attempt = sv.probes["redis"] /\ rt.sleeps = sv.probes["redis"] - 1)
               /\ rt.status = "threw" => sv.probes["redis"] = 10

\* Witness C26: the second ping replied LOADING; the check has slept and
\* made its third attempt, whose ping is in flight.
W_C26 ==
    /\ sv.mode = "startup"
    /\ sv.stage = "redis"
    /\ OtherReply
    /\ sv.outs["redis"].val = "LOADING"
    /\ sv.probes["redis"] = 3
    /\ rt.status = "racing"
    /\ rt.attempt = 3
    /\ rt.sleeps = 2

C11_WarmupIffWorker ==
    sv.mode = "startup" =>
        /\ sv.role = "api" => (sv.probes["warmup"] = 0 /\ sv.stage # "warmup")
        /\ sv.stage = "done" => (sv.role = "worker" <=> sv.probes["warmup"] >= 1)

\* Witness C11: a worker's startup has resolved after the warmup was invoked
\* twice (one failure, then success).
W_C11 ==
    /\ sv.mode = "startup"
    /\ sv.stage = "done"
    /\ sv.role = "worker"
    /\ sv.probes["warmup"] = 2

\* C17: a readiness probe responds within 1500 + 4000 + 4000 ms of waiting
\* on its checks, even when every dependency operation hangs.
C17_ProbeBoundedBySumOfTimeouts ==
    sv.mode = "ready" =>
        /\ sv.elapsed + rt.elapsed <= 1500 + 4000 + 4000
        /\ ReadyResponded => sv.elapsed <= 1500 + 4000 + 4000

\* Witness C17: all three operations hung and the probe has responded after
\* exactly the sum of the three timeouts.
W_C17 ==
    /\ ReadyResponded
    /\ \A d \in CheckedDeps : sv.outs[d].kind = "hang"
    /\ sv.elapsed = 1500 + 4000 + 4000

\* ------------------------------------------------ properties: browser handle
\* No teardown has been called so far (the handle has only been acquired).
NoTeardown == \A k \in Closers : closer[k].pc = "idle"

\* C1: for any number of getSharedRemotionBrowser() calls issued before the
\* handle is ready (and before any teardown), openBrowser is started at most
\* once, every caller is handed the promise of that one launch, and so all
\* callers observe the same outcome: all get its Browser or all its failure.
C1_SingleLaunch ==
    NoTeardown =>
        /\ Len(launches) <= 1
        /\ \A c \in Callers : caller[c].pc # "idle" => caller[c].p = 1
        /\ \A c, d \in Callers :
               (caller[c].pc \in {"got", "failed"} /\ caller[d].pc \in {"got", "failed"})
                   => caller[c].pc = caller[d].pc

\* Witness C1: every caller called while the one launch was in flight and
\* every one of them has observed its failure.
W_C1 ==
    /\ NoTeardown
    /\ Len(launches) = 1
    /\ \A c \in Callers : caller[c].pc = "failed" /\ ~caller[c].stale

\* C2 (as claimed): after a failed initialization the handle is reset, so no
\* getSharedRemotionBrowser() call is ever handed a promise that had already
\* rejected when the call was made.
C2_ResetAfterFailure ==
    \A c \in Callers : caller[c].pc # "idle" => ~caller[c].stale

\* C22 (as claimed): however many closeSharedRemotionBrowser() calls overlap,
\* close() is called at most once on the Browser of a launch, and exactly
\* once when a teardown of it has completed.
C22_ConcurrentTeardownClosesOnce ==
    \A l \in 1..Len(launches) :
        /\ launches[l].closes <= 1
        /\ (\E k \in Closers : closer[k].pc \in {"done", "closeThrew"} /\ closer[k].p = l)
              => launches[l].closes = 1

\* C23 (as claimed): a caller that called getSharedRemotionBrowser() while
\* a teardown was in progress and has got its Browser holds a Browser on
\* which no teardown has called close().
C23_NoHandoutOfClosingEngine ==
    \A c \in LateCallers :
        caller[c].pc = "got" => launches[caller[c].p].closes = 0

\* C24 (as claimed): a teardown that finds the promise of a failed launch
\* ends without throwing and leaves browserPromise null (so that the next
\* getSharedRemotionBrowser() call launches again).
C24_TeardownAfterFailedInit ==
    \A k \in Closers :
        (/\ closer[k].pc \notin {"idle", "awaiting"}
         /\ closer[k].p # 0
         /\ launches[closer[k].p].st = "rejected")
            => /\ closer[k].pc = "done"
               /\ browserPromise # closer[k].p

\* ------------------------------ acquisition under the retry combinator
\* withRetry(() => getSharedRemotionBrowser(), opts): every attempt calls
\* getSharedRemotionBrowser() and races the promise it returns against the
\* timer. A timer that fires does not touch the launch or browserPromise.
\* closeSharedRemotionBrowser() may be called meanwhile.
LaunchError == ErrorOf(<<"Failed to launch the browser process">>)

AcquireOptions ==
    [name : {<<"acquire">>},
     attempts : 1..MaxAttempts,
     delayMs : {0, 50},
     timeoutMs : {100, 5000}]

\* How long into an attempt the launch promise settles the race.
LaunchDurations == {0, 10, 3000}

\* What awaiting a launch promise does, the launch being in state `st`
\* `dur` milliseconds after the attempt began.
AwaitOutcome(st, dur) ==
    CASE st = "resolved" -> Outcome("ok", dur, "browser", Undefined)
      [] st = "rejected" -> Outcome("raise", dur, "", LaunchError)
      [] OTHER -> Outcome("hang", 0, "", Undefined)

\* The call of fn(), that is of getSharedRemotionBrowser(), made by a step
\* that left withRetry in state `w`: the cached promise is reused or
\* openBrowser() is called. The promise returned is the one the attempt
\* races (kept in the record of the first caller), whatever becomes of
\* browserPromise afterwards.
AcquireInvoked(w) ==
    IF w.status # "racing"
      THEN UNCHANGED <<browserPromise, launches, caller>>
      ELSE IF HasSharedPromise(browserPromise)
        THEN /\ caller' = [caller EXCEPT ![FirstCaller] =
                    [pc |-> "waiting", p |-> browserPromise,
                     stale |-> launches[browserPromise].st = "rejected"]]
             /\ UNCHANGED <<browserPromise, launches>>
        ELSE /\ Len(launches) < MaxLaunches
             /\ launches' = OpenBrowser(launches)
             /\ browserPromise' = Len(launches) + 1
             /\ caller' = [caller EXCEPT ![FirstCaller] =
                    [pc |-> "waiting", p |-> Len(launches) + 1, stale |-> FALSE]]

\* withRetry(() => getSharedRemotionBrowser(), opts) is called and runs up
\* to its first await.
AcquireRetryCall ==
    /\ rt.status = "none"
    /\ \E opts \in AcquireOptions :
          /\ rt' = RetryEnter(opts)
          /\ ops' = Invoked(OpsNone, RetryEnter(opts))
          /\ AcquireInvoked(RetryEnter(opts))
    /\ UNCHANGED <<closer, tvars, svars, nvars, qvars>>

\* withRetry is resumed from the await it is suspended at. From the race:
\* the promise the attempt was handed has settled and settles the race, or
\* it is still pending and the timer has fired (which does not touch the
\* launch or browserPromise). From the sleep: the next attempt calls
\* getSharedRemotionBrowser() again.
AcquireResume ==
    /\ rt.status \in {"racing", "sleeping"}
    /\ IF rt.status = "racing"
         THEN /\ \E dur \in LaunchDurations :
                    LET out == AwaitOutcome(launches[caller[FirstCaller].p].st, dur)
                    IN /\ out.kind # "hang" => SettlesWithin(out, rt.timeoutMs)
                       /\ rt' = RetryIteration(rt, out)
                       /\ ops' = Settled(ops, out, rt.timeoutMs)
              /\ UNCHANGED <<browserPromise, launches, caller>>
         ELSE /\ rt' = RetryWake(rt)
              /\ ops' = Invoked(ops, RetryWake(rt))
              /\ AcquireInvoked(RetryWake(rt))
    /\ UNCHANGED <<closer, tvars, svars, nvars, qvars>>

NextAcquireRetry ==
    \/ AcquireRetryCall
    \/ AcquireResume
    \/ \E l \in 1..MaxLaunches : LaunchResolves(l)
    \/ \E l \in 1..MaxLaunches : LaunchRejects(l)
    \/ \E k \in Closers : CloseBegin(k)
    \/ \E k \in Closers : CloseResume(k)
    \/ \E k \in Closers : CloseDone(k)

\* The teardowns that have executed `browserPromise = null`.
HandleResets ==
    Cardinality({k \in Closers : closer[k].pc \in {"closing", "done", "closeThrew"}})

\* C21 (as claimed): under withRetry, however many attempts time out or
\* fail, the retried calls never start a second launch.
C21_RetriedAcquireAttaches == Len(launches) <= 1

\* C21 (amended): under withRetry, however many attempts time out or fail,
\* the retried calls start no second launch until a teardown has reset the
\* handle: each is handed the promise of the first launch. No teardown
\* resets the handle while the first launch is in flight, and every later
\* launch follows a reset (at most one launch per reset).
C21_RetriedAcquireAttachesUntilReset ==
    /\ Len(launches) <= 1 + HandleResets
    /\ (HandleResets = 0 /\ ops.n >= 1) =>
           /\ Len(launches) = 1
           /\ browserPromise = 1
           /\ caller[FirstCaller].p = 1
    /\ (Len(launches) >= 1 /\ launches[1].st = "pending") => HandleResets = 0

\* Witness C21: an attempt timed out while the launch was in flight, the
\* launch was still in flight when the next attempt began, a teardown was
\* called and is still waiting for the launch, and the third attempt
\* returned the Browser of the same, only launch.
W_C21 ==
    /\ rt.status = "returned"
    /\ rt.res = "browser"
    /\ ops.n = 3
    /\ ops.bad = 2
    /\ rt.lastErr = TimeoutError(rt.name, rt.timeoutMs)
    /\ ops.last.dur = 10
    /\ Len(launches) = 1
    /\ caller[FirstCaller].p = 1
    /\ \E k \in Closers : closer[k].pc = "awaiting"

\* ------------------------------------------------- temporary file names
\* Several convertVideoToWebP invocations run at once in one TEMP_DIR (the
\* worker runs up to RENDER_CONCURRENCY jobs, and every await lets another
\* invocation start). Each builds its two paths from Date.now() and
\* Math.random() in its synchronous prologue.
NInvocations == 2
Invocations == 1..NInvocations

\* Math.random(), given as the base-36 digits of its fraction as
\* Number.prototype.toString(36) prints them: 0.5 prints as "0.i", 0.25 as
\* "0.9", most values print ten or eleven digits (shortened here).
RandomDigits ==
    { <<"i">>, <<"9">>,
      <<"a", "b", "c", "d", "e", "x", "y">>,
      <<"z", "b", "c", "d", "e", "x", "y">>,
      <<"a", "b", "c", "d", "e", "q">> }

\* `Math.random().toString(36)`
ToString36(digits) == <<"0", ".">> \o digits

\* String.prototype.substring(start): the characters from index `start`
\* (0-based) to the end; empty when the string is no longer than `start`.
Substring(str, start) == SubSeq(str, start + 1, Len(str))

\* `Math.random().toString(36).substring(7)`
RandomSuffix(digits) == Substring(ToString36(digits), 7)

NamesIdle == [pc |-> "idle", inputPath |-> << >>, outputPath |-> << >>]

\* The prologue of one invocation: Date.now() is read twice (it never goes
\* back) and Math.random() is drawn twice.
ConcurrentConvertCall(i) ==
    /\ names.inv[i].pc = "idle"
    /\ \E t1 \in NowValues, t2 \in NowValues, r1 \in RandomDigits, r2 \in RandomDigits :
          /\ names.clock <= t1
          /\ t1 <= t2
          /\ names' = [clock |-> t2,
                       inv |-> [names.inv EXCEPT ![i] =
                           [pc |-> "running",
                            inputPath |-> TempPath("input", t1, RandomSuffix(r1), "mp4"),
                            outputPath |-> TempPath("output", t2, RandomSuffix(r2), "webp")]]]
    /\ UNCHANGED <<bvars, tvars, rvars, svars, qvars>>

\* The invocation returns or throws; its paths are no longer in use.
ConcurrentConvertReturn(i) ==
    /\ names.inv[i].pc = "running"
    /\ names' = [names EXCEPT !.inv[i] = NamesIdle]
    /\ UNCHANGED <<bvars, tvars, rvars, svars, qvars>>

InitNames ==
    names = [clock |-> 1000, inv |-> [i \in Invocations |-> NamesIdle]]

NextNames ==
    \/ \E i \in Invocations : ConcurrentConvertCall(i)
    \/ \E i \in Invocations : ConcurrentConvertReturn(i)

\* C16 (as claimed): two invocations running at the same time never have
\* the same input path or the same output path.
C16_TempNamesCollisionFree ==
    \A i \in Invocations : \A j \in Invocations :
        (i # j /\ names.inv[i].pc = "running" /\ names.inv[j].pc = "running")
            => /\ names.inv[i].inputPath # names.inv[j].inputPath
               /\ names.inv[i].outputPath # names.inv[j].outputPath

\* ------------------------------------------------ job queue & worker pool
\* The queue and the worker (services/queue.ts, workers/render-worker.ts)
\* are not part of the source at hand; this section follows the
\* specification's section 4.5: jobs keyed by (user, composition), a
\* duplicate key for a queued or active job coalesced to the existing job,
\* W workers each running dequeue -> active -> pipeline steps 1..6.
NWorkers == 2       \* W, the configured concurrency limit (RENDER_CONCURRENCY)
MaxSubmits == 3     \* cap on the number of submit() calls in one run
Workers == 1..NWorkers

JobKeys == { <<"alice", "dark">>, <<"alice", "light">>, <<"bob", "dark">> }

\* 1 acquire engine, 2 render, 3 transcode, 4 upload, 5 cache URL, 6 complete
LastStep == 6
FallibleSteps == 2..5

Pending(job) == job.status \in {"queued", "active"}
Terminal(job) == job.status \in {"completed", "failed"}

\* The id of the queued or active job with this key, 0 when there is none.
(* Variant used to test the properties: no deduplication by key. *)
NoDedup(key) == 0

DuplicateOf(key) ==
    IF \E id \in 1..Len(jobs) : jobs[id].key = key /\ Pending(jobs[id])
      THEN CHOOSE id \in 1..Len(jobs) : jobs[id].key = key /\ Pending(jobs[id])
      ELSE 0

\* FIFO dequeue: the oldest queued job, 0 when none is queued.
NextQueued ==
    IF \E id \in 1..Len(jobs) : jobs[id].status = "queued"
      THEN CHOOSE id \in 1..Len(jobs) :
               /\ jobs[id].status = "queued"
               /\ \A other \in 1..(id - 1) : jobs[other].status # "queued"
      ELSE 0

\* A worker takes the next job only when its loop is at the dequeue, that
\* is, when it is not executing a pipeline.
(* Variant used to test the properties: the loop does not wait for the
   pipeline it started. *)
DequeueWhileBusy(w) == TRUE

AtDequeue(w) == worker[w].job = 0

WorkerIdle == [job |-> 0, step |-> 0]

RECURSIVE SumSubs(_)
SumSubs(js) == IF js = << >> THEN 0 ELSE Head(js).subs + SumSubs(Tail(js))

\* The number of submit() calls so far.
Submits == SumSubs(jobs)

\* submit(job) -> jobId: a new queued job, or the existing job of a
\* duplicate key (`subs` counts the calls that were answered with the job;
\* `runs` counts its dequeues; both are history, for the properties).
Submit(key) ==
    /\ Submits < MaxSubmits
    /\ jobs' = IF DuplicateOf(key) # 0
                 THEN [jobs EXCEPT ![DuplicateOf(key)].subs = @ + 1]
                 ELSE Append(jobs, [key |-> key, status |-> "queued", error |-> FALSE,
                                    runs |-> 0, subs |-> 1])
    /\ UNCHANGED <<worker, bvars, tvars, rvars, svars, nvars>>

\* dequeue next job -> mark active (one atomic operation of the queue store)
Dequeue(w) ==
    /\ AtDequeue(w)
    /\ NextQueued # 0
    /\ jobs' = [jobs EXCEPT ![NextQueued].status = "active", ![NextQueued].runs = @ + 1]
    /\ worker' = [worker EXCEPT ![w] = [job |-> NextQueued, step |-> 1]]
    /\ UNCHANGED <<bvars, tvars, rvars, svars, nvars>>

\* One pipeline step succeeds; after step 6 the job is completed and the
\* worker is back at the dequeue.
StepOk(w) ==
    /\ worker[w].job # 0
    /\ IF worker[w].step = LastStep
         THEN /\ jobs' = [jobs EXCEPT ![worker[w].job].status = "completed"]
              /\ worker' = [worker EXCEPT ![w] = WorkerIdle]
         ELSE /\ jobs' = jobs
              /\ worker' = [worker EXCEPT ![w].step = @ + 1]
    /\ UNCHANGED <<bvars, tvars, rvars, svars, nvars>>

\* A failure at steps 2-5 marks the job failed with the error attached
\* (`error` tells whether one is attached); the worker is at once available
\* for the next job.
StepFails(w) ==
    /\ worker[w].job # 0
    /\ worker[w].step \in FallibleSteps
    /\ jobs' = [jobs EXCEPT ![worker[w].job].status = "failed",
                            ![worker[w].job].error = TRUE]
    /\ worker' = [worker EXCEPT ![w] = WorkerIdle]
    /\ UNCHANGED <<bvars, tvars, rvars, svars, nvars>>

InitQueue ==
    /\ jobs = << >>
    /\ worker = [w \in Workers |-> WorkerIdle]

NextQueue ==
    \/ \E key \in JobKeys : Submit(key)
    \/ \E w \in Workers : Dequeue(w)
    \/ \E w \in Workers : StepOk(w)
    \/ \E w \in Workers : StepFails(w)

ActiveJobs == {id \in 1..Len(jobs) : jobs[id].status = "active"}

\* C18: at most NWorkers jobs are active at the same time.
C18_AtMostWActive == Cardinality(ActiveJobs) <= NWorkers

\* Witness C18: every worker is executing a job and a further job waits.
W_C18 ==
    /\ Cardinality(ActiveJobs) = NWorkers
    /\ \E id \in 1..Len(jobs) : jobs[id].status = "queued"
    /\ Len(jobs) >= NWorkers + 1

\* C19: two jobs with the same key are never both queued or active, so a
\* key submitted again before its job is terminal starts no second
\* pipeline; every job is executed at most once.
C19_OnePipelinePerKey ==
    /\ \A a \in 1..Len(jobs) : \A b \in 1..Len(jobs) :
           (a # b /\ jobs[a].key = jobs[b].key) => ~(Pending(jobs[a]) /\ Pending(jobs[b]))
    /\ \A id \in 1..Len(jobs) : jobs[id].runs <= 1

\* Witness C19: the same key was submitted twice while its job was
\* pending, both calls got the same job, and it has completed after one run.
W_C19 ==
    /\ Len(jobs) = 1
    /\ jobs[1].subs = 2
    /\ jobs[1].status = "completed"
    /\ jobs[1].runs = 1

Init == InitBrowser /\ InitTranscode /\ InitRetry /\ InitService /\ InitNames /\ InitQueue

\* The browser handle, the transcode stage and the combinator on its own do
\* not touch the dependencies: one state of them is enough there.
InitNoBucket == Init /\ deps.buckets = {}

SpecBrowser == InitNoBucket /\ [][NextBrowser]_vars

SpecAcquire == InitNoBucket /\ [][NextAcquire]_vars

SpecTeardownRace == InitNoBucket /\ [][NextTeardownRace]_vars

SpecAcquireRetry == InitNoBucket /\ [][NextAcquireRetry]_vars

SpecTranscode == InitNoBucket /\ [][NextTranscode]_vars

SpecRetry == InitNoBucket /\ [][NextRetry]_vars

SpecReady == Init /\ [][NextReady]_vars

\* runStartupChecks starts against an object store without the configured
\* bucket (a first start) or with it (a restart).
InitStartup == Init /\ deps.buckets \in {{}, {Bucket}}

SpecStartup == InitStartup /\ [][NextStartup]_vars

SpecCheckCalls == InitNoBucket /\ [][NextCheckCalls]_vars

SpecNames == InitNoBucket /\ [][NextNames]_vars

SpecQueue == InitNoBucket /\ [][NextQueue]_vars

====
